---- MODULE Spec2Model ----
(***************************************************************************)
(* Node replication: the per-replica flat combiner (Replica) together with *)
(* the shared log and per-thread contexts it drives.                       *)
(*                                                                         *)
(* Replica is translated from src/src/replica.rs.  The Log and the Context *)
(* are used by the Replica but their code is not part of the sources; they *)
(* are modelled from their description (sections 4.1 and 4.2) and from the *)
(* way replica.rs and its tests call them.                                 *)
(***************************************************************************)
EXTENDS Integers, Sequences, FiniteSets, TLC

(***************************************************************************)
(* Bounds of the model.                                                    *)
(***************************************************************************)
\* Threads a replica hands ids to (256 in replica.rs, scaled down).
MAX_THREADS_PER_REPLICA == 3
\* Entries of the circular log (Log::new(n)).
LogSize == 2
\* Slots of a thread context (Context::batch_size()).
BatchSize == 1
\* Calls of execute, execute_mut and verify issued in one run.
MaxCalls == 3
\* Elements the default stack starts with (50000 in stack.rs, scaled down).
StackInit == 1

\* OS threads of the program.
Procs == {1, 2, 3}
\* Replicas constructed over the same logs, in this order.
ReplicaIds == {1, 2}
\* Log shards a replica can be constructed with (slog.len() is 1 or 2).
Shards == {0, 1}

Max(a, b) == IF a >= b THEN a ELSE b
Min(a, b) == IF a <= b THEN a ELSE b

(***************************************************************************)
(* The sequential data structure: the stack of benches/stack.rs, with the  *)
(* dispatch counter of the test structure Data of replica.rs.              *)
(***************************************************************************)
\* Option<u32>::None; Some(v) is the number v >= 0.
None == 0 - 1
\* A response: the value, and (history) the call whose dispatch produced it.
Resp(v, u) == [v |-> v, of |-> u]
\* No response yet (a context slot whose response was not written).
NoResp == Resp(0 - 2, 0)

Pop == [k |-> "Pop", v |-> 0]
Push(v) == [k |-> "Push", v |-> v]
\* The read operation the tests issue (execute(11, idx)).
ReadOp == 11

\* impl Default for Stack: pushes e for e in 0..n.
DefaultData == [storage |-> [e \in 1..StackInit |-> e - 1], junk |-> 0]

\* Stack::dispatch_mut: the new state and the response.
dispatch_mut(d, op) ==
  IF op.k = "Push"
  THEN [d |-> [storage |-> Append(d.storage, op.v), junk |-> d.junk + 1],
        r |-> None]
  ELSE IF Len(d.storage) = 0
       THEN [d |-> [d EXCEPT !.junk = @ + 1], r |-> None]
       ELSE [d |-> [storage |-> SubSeq(d.storage, 1, Len(d.storage) - 1),
                    junk |-> d.junk + 1],
             r |-> d.storage[Len(d.storage)]]

\* Data::dispatch: a read returns the number of writes applied.
dispatch(d, op) == d.junk

\* The operation's hash (DefaultHasher): a fixed function of the operation.
HashOf(op) == IF op.k = "Push" THEN op.v ELSE 0
\* The hash of the read operation.
ReadHash == ReadOp

\* The sequential reference: ops applied in order to a fresh default structure.
RECURSIVE ApplyAll(_)
ApplyAll(ops) ==
  IF Len(ops) = 0 THEN DefaultData
  ELSE dispatch_mut(ApplyAll(SubSeq(ops, 1, Len(ops) - 1)), ops[Len(ops)]).d

\* The response of the k-th operation of ops in the sequential reference.
RespAt(ops, k) == dispatch_mut(ApplyAll(SubSeq(ops, 1, k - 1)), ops[k]).r

(***************************************************************************)
(* Context: a thread's ring of slots {op, resp, state}, head and tail.     *)
(***************************************************************************)
EmptySlot == [op |-> Pop, uid |-> 0, hash |-> 0, resp |-> NoResp, state |-> "Empty"]

NewContext == [batch |-> [i \in 0..(BatchSize - 1) |-> EmptySlot], head |-> 0, tail |-> 0]

\* enqueue fails when the ring is full.
CtxFull(c) == c.tail - c.head >= BatchSize

\* enqueue(op, hash): the slot at tail becomes Pending. uid names the call.
CtxEnqueue(c, op, uid, hash) ==
  [c EXCEPT !.batch[c.tail % BatchSize] =
               [op |-> op, uid |-> uid, hash |-> hash, resp |-> NoResp, state |-> "Pending"],
            !.tail = @ + 1]

\* Positions head..tail-1, oldest first.
CtxPositions(c) == [i \in 1..(c.tail - c.head) |-> c.head + i - 1]

\* The positions of the Pending slots whose hash maps to shard l of n shards.
CtxPending(c, l, n) ==
  SelectSeq(CtxPositions(c),
            LAMBDA i : c.batch[i % BatchSize].state = "Pending"
                       /\ c.batch[i % BatchSize].hash % n = l)

\* ops(buffer, hash): the pending operations of the shard, in submission order.
CtxOps(c, l, n) ==
  LET ps == CtxPending(c, l, n)
  IN [j \in 1..Len(ps) |-> [op |-> c.batch[ps[j] % BatchSize].op,
                            uid |-> c.batch[ps[j] % BatchSize].uid]]

\* The positions of all Pending slots, oldest first.
CtxAllPending(c) ==
  SelectSeq(CtxPositions(c), LAMBDA i : c.batch[i % BatchSize].state = "Pending")

\* enqueue_resps(resps): the oldest pending slots take the responses in order
\* and become Done.
CtxEnqueueResps(c, resps) ==
  LET ps == CtxAllPending(c)
      m == Min(Len(ps), Len(resps))
      hit == {ps[j] % BatchSize : j \in 1..m}
      at(s) == CHOOSE j \in 1..m : ps[j] % BatchSize = s
  IN [c EXCEPT !.batch = [s \in 0..(BatchSize - 1) |->
                            IF s \in hit
                            THEN [c.batch[s] EXCEPT !.resp = resps[at(s)], !.state = "Done"]
                            ELSE c.batch[s]]]

\* res(): whether the oldest slot is Done.
CtxHasRes(c) == c.tail > c.head /\ c.batch[c.head % BatchSize].state = "Done"

\* res(): the response of the oldest slot.
CtxResValue(c) == c.batch[c.head % BatchSize].resp

\* A res() that would leave the slot in place.
CtxResPeek(c) == c

\* res(): the oldest slot is consumed and becomes Empty.
CtxResTake(c) ==
  [c EXCEPT !.batch[c.head % BatchSize] = EmptySlot, !.head = @ + 1]

(***************************************************************************)
(* Log: the circular buffer with head, tail, ctail, per-replica ltails and *)
(* alive masks.  A log is a record; the operators below are its methods.   *)
(***************************************************************************)
DeadEntry == [op |-> Pop, uid |-> 0, replica |-> 0, alivef |-> FALSE]

NewLog == [entries |-> [i \in 0..(LogSize - 1) |-> DeadEntry],
           head |-> 0, tail |-> 0, ctail |-> 0,
           ltails |-> [r \in ReplicaIds |-> 0],
           lmasks |-> [r \in ReplicaIds |-> TRUE],
           next |-> 1]

\* register(): hands out the next replica id.
LogRegister(g) == [g EXCEPT !.next = @ + 1]

LogIndex(i) == i % LogSize

\* A faulty variant of LogWouldOverflow: a reservation is never refused.
LogNeverOverflows(g, n) == FALSE

\* append: the reservation of n entries would overwrite entries still needed.
LogWouldOverflow(g, n) == g.tail + n - g.head > LogSize

\* append: the CAS on tail reserves [tail, tail + n).
LogReserve(g, n) == [g EXCEPT !.tail = @ + n]

\* append: the alive bit written at index i by replica rid; it is the
\* replica's mask, flipped when the slot already carries it (the log wrapped
\* before the replica's own cursor did).
LogAliveBit(g, i, rid) ==
  IF g.entries[LogIndex(i)].alivef = g.lmasks[rid] THEN ~g.lmasks[rid] ELSE g.lmasks[rid]

\* append: the batch is written to the reserved range starting at t.
LogWrite(g, t, batch, rid) ==
  [g EXCEPT !.entries =
     [s \in 0..(LogSize - 1) |->
        IF \E j \in 1..Len(batch) : LogIndex(t + j - 1) = s
        THEN LET j == CHOOSE j \in 1..Len(batch) : LogIndex(t + j - 1) = s
             IN [op |-> batch[j].op, uid |-> batch[j].uid, replica |-> rid,
                 alivef |-> LogAliveBit(g, t + j - 1, rid)]
        ELSE g.entries[s]]]

\* exec: the entry at index i has been written in the generation rid reads.
LogEntryReady(g, i, rid) == g.entries[LogIndex(i)].alivef = g.lmasks[rid]

\* exec: after consuming index i the mask flips when the cursor wraps.
LogConsumed(g, i, rid) ==
  IF LogIndex(i) = LogSize - 1 THEN [g EXCEPT !.lmasks[rid] = ~@] ELSE g

\* A faulty variant of LogExecEnd: the completed tail is not published.
LogExecEndLocal(g, rid, gtail) == [g EXCEPT !.ltails[rid] = gtail]

\* exec: the completed tail and the replica's local tail are published.
LogExecEnd(g, rid, gtail) ==
  [g EXCEPT !.ctail = Max(@, gtail), !.ltails[rid] = gtail]

\* The smallest local tail over the registered replicas.
LogMinLtail(g) ==
  LET regs == {r \in ReplicaIds : r < g.next}
  IN CHOOSE m \in {g.ltails[r] : r \in regs} : \A r \in regs : m <= g.ltails[r]

\* GC: head advances to the slowest replica's cursor.
LogAdvanceHead(g) == [g EXCEPT !.head = Max(@, LogMinLtail(g))]

\* is_replica_synced_for_reads(rid, ctail)
LogSynced(g, rid, ct) == g.ltails[rid] >= ct

(***************************************************************************)
(* State.                                                                  *)
(***************************************************************************)
VARIABLES
  nlogs,      \* slog.len(): the number of logs every replica was built over
  home,       \* the replica each OS thread uses
  quota,      \* the calls each OS thread may still issue
  slog,       \* the shared logs, by shard
  hist,       \* history: every entry appended to a log, in index order
  next,       \* Replica.next: the id handed to the next registering thread
  combiners,  \* Replica.combiners: per shard, the combiner's id or 0
  contexts,   \* Replica.contexts: per thread id
  buffer,     \* Replica.buffer: per shard, the staged operations
  inflight,   \* Replica.inflight: per thread id, operations collected
  result,     \* Replica.result: the staged responses
  borrow,     \* the RefCell borrow flags of inflight and result
  data,       \* Replica.data: the replica's copy of the data structure
  wlock,      \* the writer of the RwLock around data, or 0
  trace,      \* history: per replica and shard, the calls of dispatch_mut
  pc,         \* each thread's position
  th,         \* each thread's locals
  calls       \* history: the calls issued, by call id

vars == <<nlogs, home, quota, slog, hist, next, combiners, contexts, buffer, inflight,
          result, borrow, data, wlock, trace, pc, th, calls>>

Tids == 1..MAX_THREADS_PER_REPLICA

\* A faulty variant of idx: every replica uses the first id of the log.
idx_first(r, l) == 1

\* Replica::new registers the replica with every log; replicas are built in
\* order, so replica r is given id r in each log.
idx(r, l) == r

\* hash % self.slog.len()
HashIdx(hash) == hash % nlogs

\* The id verify() takes the combiner lock with.
VerifyId == MAX_THREADS_PER_REPLICA + 2

NoLocals == [tid |-> 0, op |-> Pop, uid |-> 0, hash |-> 0, ret |-> "idle",
             cnext |-> 0, at |-> 0, mode |-> "cb", ei |-> 0, eg |-> 0, rctail |-> 0,
             gcn |-> 0, ridx |-> 0, rres |-> 0, toks |-> <<>>]

\* The locals of a thread that is in no call: only the tokens it was given
\* (and what its last register() returned) live on.
Idle(t) == [NoLocals EXCEPT !.tid = t.tid, !.rres = t.rres, !.toks = t.toks]

\* The locals of a thread that has registered and was given token t
\* (t = 0: the thread has not registered).
Holding(t) == [NoLocals EXCEPT !.tid = t, !.rres = t, !.toks = IF t = 0 THEN <<>> ELSE <<t>>]

\* Call ids: the k-th call of thread p.
NumProcs == Cardinality(Procs)
Uids == 1..(NumProcs * MaxCalls)
OwnerOf(u) == ((u - 1) % NumProcs) + 1
NoCall == [kind |-> "no", op |-> Pop, resp |-> NoResp, done |-> FALSE,
           before |-> {}, seen |-> <<>>]

\* The replicas have been constructed over the logs, nobody has called yet.
InitCommon ==
  /\ slog = [l \in Shards |-> LogRegister(LogRegister(NewLog))]
  /\ hist = [l \in Shards |-> <<>>]
  /\ combiners = [r \in ReplicaIds |-> [l \in Shards |-> 0]]
  /\ contexts = [r \in ReplicaIds |-> [t \in Tids |-> NewContext]]
  /\ buffer = [r \in ReplicaIds |-> [l \in Shards |-> <<>>]]
  /\ inflight = [r \in ReplicaIds |-> [t \in Tids |-> 0]]
  /\ result = [r \in ReplicaIds |-> <<>>]
  /\ borrow = [r \in ReplicaIds |-> [inflight |-> 0, result |-> 0]]
  /\ data = [r \in ReplicaIds |-> DefaultData]
  /\ wlock = [r \in ReplicaIds |-> 0]
  /\ trace = [r \in ReplicaIds |-> [l \in Shards |-> <<>>]]
  /\ pc = [p \in Procs |-> "idle"]
  /\ calls = [u \in Uids |-> NoCall]

\* The ways MaxCalls calls are split over the threads.
Quotas == {q \in [Procs -> 0..MaxCalls] : q[1] + q[2] + q[3] = MaxCalls}

\* Replicas built over one log. Threads 1 and 2 use replica 1, thread 3 uses
\* replica 2; the first thread of each replica (1 and 3) has registered.
Init ==
  /\ nlogs = 1
  /\ home = [p \in Procs |-> IF p = 3 THEN 2 ELSE 1]
  /\ quota \in Quotas
  /\ next = [r \in ReplicaIds |-> 2]
  /\ th = [p \in Procs |-> Holding(IF p = 2 THEN 0 ELSE 1)]
  /\ InitCommon

\* Replicas built over two logs. All threads use replica 1; threads 1 and 2
\* have registered. Every thread issues up to one call.
InitSharded ==
  /\ nlogs = 2
  /\ home = [p \in Procs |-> 1]
  /\ quota = [p \in Procs |-> 1]
  /\ next = [r \in ReplicaIds |-> IF r = 1 THEN 3 ELSE 1]
  /\ th = [p \in Procs |-> Holding(IF p = 3 THEN 0 ELSE p)]
  /\ InitCommon

\* Replicas built over two logs. All threads use replica 1 and have
\* registered; thread 1 issues up to two calls, the others one.
InitShardedReads ==
  /\ nlogs = 2
  /\ home = [p \in Procs |-> 1]
  /\ quota = [p \in Procs |-> IF p = 1 THEN 2 ELSE 1]
  /\ next = [r \in ReplicaIds |-> IF r = 1 THEN 4 ELSE 1]
  /\ th = [p \in Procs |-> Holding(p)]
  /\ InitCommon

\* Two logs; threads 1 and 2 of replica 1 have registered and issue one call
\* each, thread 3 issues none.
InitFair ==
  /\ nlogs = 2
  /\ home = [p \in Procs |-> 1]
  /\ quota = [p \in Procs |-> IF p = 3 THEN 0 ELSE 1]
  /\ next = [r \in ReplicaIds |-> IF r = 1 THEN 3 ELSE 1]
  /\ th = [p \in Procs |-> Holding(IF p = 3 THEN 0 ELSE p)]
  /\ InitCommon

\* Two logs. All threads use replica 1; thread 1 has registered, the others
\* have not. Threads 1 and 2 issue one call each, thread 3 none.
InitLate ==
  /\ nlogs = 2
  /\ home = [p \in Procs |-> 1]
  /\ quota = [p \in Procs |-> IF p = 3 THEN 0 ELSE 1]
  /\ next = [r \in ReplicaIds |-> IF r = 1 THEN 2 ELSE 1]
  /\ th = [p \in Procs |-> Holding(IF p = 1 THEN 1 ELSE 0)]
  /\ InitCommon

\* One log. All threads use replica 1 and have registered; thread 1 submits
\* up to two operations, thread 2 one, thread 3 none.
InitDirect ==
  /\ nlogs = 1
  /\ home = [p \in Procs |-> 1]
  /\ quota = [p \in Procs |-> IF p = 1 THEN 2 ELSE IF p = 2 THEN 1 ELSE 0]
  /\ next = [r \in ReplicaIds |-> IF r = 1 THEN 4 ELSE 1]
  /\ th = [p \in Procs |-> Holding(p)]
  /\ InitCommon

\* One log; replica 1 has just been constructed (next is 1) and all three
\* threads use it; none has registered and none issues an operation.
InitRegister ==
  /\ nlogs = 1
  /\ home = [p \in Procs |-> 1]
  /\ quota = [p \in Procs |-> 0]
  /\ next = [r \in ReplicaIds |-> 1]
  /\ th = [p \in Procs |-> Holding(0)]
  /\ InitCommon

\* Two logs. Threads 1 and 2 use replica 1, thread 3 uses replica 2; all have
\* registered and every thread issues one call.
InitFairReads ==
  /\ nlogs = 2
  /\ home = [p \in Procs |-> IF p = 3 THEN 2 ELSE 1]
  /\ quota = [p \in Procs |-> 1]
  /\ next = [r \in ReplicaIds |-> IF r = 1 THEN 3 ELSE 2]
  /\ th = [p \in Procs |-> Holding(IF p = 3 THEN 1 ELSE p)]
  /\ InitCommon

(***************************************************************************)
(* Replica: helpers of the combining round.                                *)
(***************************************************************************)
Rep(p) == home[p]
Me(p) == th[p].tid
Shard(p) == HashIdx(th[p].hash)

\* A faulty variant of RegisterFull: one more identifier is handed out.
RegisterFullLate(n) == n > MAX_THREADS_PER_REPLICA + 1

\* register: no identifier is left.
RegisterFull(n) == n > MAX_THREADS_PER_REPLICA

\* A faulty variant of NextCasSucceeds: the CAS on next never fails.
NextCasAlways(n, i) == TRUE

\* register: self.next.compare_and_swap(idx, idx + 1) finds next at idx.
NextCasSucceeds(n, i) == n = i

\* A faulty variant of LockFree: the lock is never looked at.
LockFreeAlways(v) == TRUE

\* try_combine: the volatile reads and the CAS find the lock free.
LockFree(v) == v = 0

\* A faulty variant of VerifyMayEnter: verify does not wait for the lock.
VerifyEntersAlways(v) == TRUE

\* verify: the CAS loop leaves when it found the lock free.
VerifyMayEnter(v) == v = 0

\* A faulty variant of make_pending: the operation is stored in any case.
make_pending_unchecked(c, op, uid, hash) == [ok |-> TRUE, c |-> CtxEnqueue(c, op, uid, hash)]

\* make_pending(op, tid, hash) on the context of tid: enqueue's answer and the
\* context it leaves.
make_pending(c, op, uid, hash) ==
  IF CtxFull(c) THEN [ok |-> FALSE, c |-> c]
  ELSE [ok |-> TRUE, c |-> CtxEnqueue(c, op, uid, hash)]

\* combine: for i in 1..next
CollectRange(n) == 1..(n - 1)

\* A faulty variant of ClosureApply: entries of other replicas are skipped.
ClosureApplyOwn(d, e, rid) ==
  IF e.replica = rid THEN dispatch_mut(d, e.op) ELSE [d |-> d, r |-> None]

\* combine: the closures dispatch every entry the log hands them.
ClosureApply(d, e, rid) == dispatch_mut(d, e.op)

\* combine: buffer.clear()
ClearedBuffer(b) == <<>>

\* A faulty variant of ReadSynced: the read does not wait for the replica.
ReadSyncedAlways(g, rid, ct) == TRUE

\* A check that would never find the replica synced.
ReadSyncedNever(g, rid, ct) == FALSE

\* read_only: the loop condition, against the ctail read on entry.
ReadSynced(g, rid, ct) == LogSynced(g, rid, ct)

\* combine: the closures keep the response of an entry of this replica only.
KeepsResponse(origin, r, l) == origin = idx(r, l)

\* combine: operations[i - 1] = contexts[i - 1].ops(&mut buffer, hash), for
\* the thread ids below n in order: the staged buffer.
RECURSIVE CollectBuffer(_, _, _, _)
CollectBuffer(ctxs, l, i, n) ==
  IF i \notin CollectRange(n) THEN <<>>
  ELSE CtxOps(ctxs[i], l, nlogs) \o CollectBuffer(ctxs, l, i + 1, n)

\* combine: the count each context reported.
CollectCounts(ctxs, old, l, n) ==
  [t \in Tids |-> IF t \in CollectRange(n) THEN Len(CtxOps(ctxs[t], l, nlogs)) ELSE old[t]]

\* combine: the responses handed to thread i are results[s..f].
ResponseSlice(results, s, f) == SubSeq(results, s + 1, f)

\* combine: the loop that returns responses to the contexts, from thread id
\* i on. ok is FALSE when a slice results[s..f] is out of range (a panic).
RECURSIVE Distribute(_, _, _, _, _, _, _)
Distribute(ctxs, ops, results, i, s, f, n) ==
  IF i \notin CollectRange(n) THEN [ctxs |-> ctxs, ops |-> ops, ok |-> TRUE]
  ELSE IF ops[i] = 0 THEN Distribute(ctxs, ops, results, i + 1, s, f, n)
  ELSE IF f + ops[i] > Len(results) THEN [ctxs |-> ctxs, ops |-> ops, ok |-> FALSE]
  ELSE Distribute([ctxs EXCEPT ![i] = CtxEnqueueResps(@, ResponseSlice(results, s, f + ops[i]))],
                  [ops EXCEPT ![i] = 0], results, i + 1, s + ops[i], f + ops[i], n)

\* The entries a batch adds to the history of a log.
Stamped(batch, rid) == [j \in 1..Len(batch) |-> [op |-> batch[j].op, uid |-> batch[j].uid, replica |-> rid]]

(***************************************************************************)
(* Replica: the operations, one action per step of a thread.               *)
(***************************************************************************)
\* The calls issued so far, and the id of the next call of thread p.
Issued == {u \in Uids : calls[u].kind # "no"}
NextUid(p) == Cardinality({u \in Issued : OwnerOf(u) = p}) * NumProcs + p
MayCall(p) == pc[p] = "idle" /\ quota[p] > 0
\* The write calls that have returned.
Returned == {u \in Uids : calls[u].kind = "wr" /\ calls[u].done}

\* register(): let idx = self.next.load().
RegisterLoad(p) ==
  /\ pc[p] = "idle"
  /\ th' = [th EXCEPT ![p].ridx = next[Rep(p)]]
  /\ pc' = [pc EXCEPT ![p] = "rg"]
  /\ UNCHANGED <<nlogs, home, quota, slog, hist, next, combiners, contexts, buffer, inflight,
                 result, borrow, data, wlock, trace, calls>>

\* register(), the rest of one turn of the loop: return None when no id is
\* left; else CAS next and return the token, or load again when the CAS failed.
RegisterCas(p) ==
  /\ pc[p] = "rg"
  /\ IF RegisterFull(th[p].ridx)
     THEN /\ th' = [th EXCEPT ![p].ridx = 0, ![p].rres = None]
          /\ pc' = [pc EXCEPT ![p] = "idle"]
          /\ UNCHANGED next
     ELSE IF NextCasSucceeds(next[Rep(p)], th[p].ridx)
     THEN /\ next' = [next EXCEPT ![Rep(p)] = th[p].ridx + 1]
          /\ th' = [th EXCEPT ![p].tid = th[p].ridx, ![p].rres = th[p].ridx,
                              ![p].toks = Append(@, th[p].ridx), ![p].ridx = 0]
          /\ pc' = [pc EXCEPT ![p] = "idle"]
     ELSE /\ th' = [th EXCEPT ![p].ridx = next[Rep(p)]]
          /\ UNCHANGED <<next, pc>>
  /\ UNCHANGED <<nlogs, home, quota, slog, hist, combiners, contexts, buffer, inflight,
                 result, borrow, data, wlock, trace, calls>>

\* A thread that holds no token calls register().
Register(p) == Me(p) = 0 /\ RegisterLoad(p)

\* execute_mut(op, idx): the operation is hashed.
StartMut(p, op) ==
  /\ MayCall(p) /\ Me(p) # 0
  /\ calls' = [calls EXCEPT ![NextUid(p)] = [NoCall EXCEPT !.kind = "wr", !.op = op]]
  /\ th' = [th EXCEPT ![p].op = op, ![p].uid = NextUid(p), ![p].hash = HashOf(op)]
  /\ pc' = [pc EXCEPT ![p] = "mp"]
  /\ quota' = [quota EXCEPT ![p] = @ - 1]
  /\ UNCHANGED <<nlogs, home, slog, hist, next, combiners, contexts, buffer, inflight,
                 result, borrow, data, wlock, trace>>

\* execute_mut: while !self.make_pending(op.clone(), idx.0, hash) {}
MakePending(p) ==
  /\ pc[p] = "mp"
  /\ LET m == make_pending(contexts[Rep(p)][Me(p)], th[p].op, th[p].uid, th[p].hash)
     IN IF ~m.ok
        THEN UNCHANGED <<contexts, pc, th>>
        ELSE /\ contexts' = [contexts EXCEPT ![Rep(p)][Me(p)] = m.c]
             /\ pc' = [pc EXCEPT ![p] = "tc"]
             /\ th' = [th EXCEPT ![p].ret = "gr"]
  /\ UNCHANGED <<nlogs, home, quota, slog, hist, next, combiners, buffer, inflight,
                 result, borrow, data, wlock, trace, calls>>

\* try_combine(tid, hash): return when there is a combiner, else CAS the lock.
TryCombine(p) ==
  /\ pc[p] = "tc"
  /\ IF LockFree(combiners[Rep(p)][Shard(p)])
     THEN /\ combiners' = [combiners EXCEPT ![Rep(p)][Shard(p)] = Me(p)]
          /\ pc' = [pc EXCEPT ![p] = "cb_borrow"]
     ELSE /\ pc' = [pc EXCEPT ![p] = th[p].ret]
          /\ UNCHANGED combiners
  /\ UNCHANGED <<nlogs, home, quota, slog, hist, next, contexts, buffer, inflight,
                 result, borrow, data, wlock, trace, th, calls>>

\* combine: inflight.borrow_mut() and result.borrow_mut() read the borrow
\* flags; a flag that is not 0 panics the thread (the lock stays taken).
CombineBorrow(p) ==
  /\ pc[p] = "cb_borrow"
  /\ pc' = [pc EXCEPT ![p] = IF borrow[Rep(p)].inflight = 0 /\ borrow[Rep(p)].result = 0
                             THEN "cb_begin" ELSE "panicked"]
  /\ UNCHANGED <<nlogs, home, quota, slog, hist, next, combiners, contexts, buffer, inflight,
                 result, borrow, data, wlock, trace, th, calls>>

\* combine: the borrows are taken; buffer.clear(); results.clear();
\* next = self.next.load().
CombineBegin(p) ==
  /\ pc[p] = "cb_begin"
  /\ borrow' = [borrow EXCEPT ![Rep(p)] = [inflight |-> 0 - 1, result |-> 0 - 1]]
  /\ buffer' = [buffer EXCEPT ![Rep(p)][Shard(p)] = ClearedBuffer(@)]
  /\ result' = [result EXCEPT ![Rep(p)] = <<>>]
  /\ th' = [th EXCEPT ![p].cnext = next[Rep(p)]]
  /\ pc' = [pc EXCEPT ![p] = "cb_collect"]
  /\ UNCHANGED <<nlogs, home, quota, slog, hist, next, combiners, contexts, inflight,
                 data, wlock, trace, calls>>

\* combine: collect the operations of each registered thread.
CombineCollect(p) ==
  /\ pc[p] = "cb_collect"
  /\ buffer' = [buffer EXCEPT ![Rep(p)][Shard(p)] =
                  @ \o CollectBuffer(contexts[Rep(p)], Shard(p), 1, th[p].cnext)]
  /\ inflight' = [inflight EXCEPT ![Rep(p)] =
                    CollectCounts(contexts[Rep(p)], @, Shard(p), th[p].cnext)]
  /\ th' = [th EXCEPT ![p].mode = "cb"]
  /\ pc' = [pc EXCEPT ![p] = "ap"]
  /\ UNCHANGED <<nlogs, home, quota, slog, hist, next, combiners, contexts,
                 result, borrow, data, wlock, trace, calls>>

\* Log::append, one turn of its loop: when the batch does not fit, replay the
\* log on this replica (through the closure) and advance head; else reserve.
AppendTry(p) ==
  /\ pc[p] = "ap"
  /\ LET l == Shard(p)
         b == buffer[Rep(p)][l]
     IN IF LogWouldOverflow(slog[l], Len(b))
        THEN /\ th' = [th EXCEPT ![p].mode = "gc"]
             /\ pc' = [pc EXCEPT ![p] = "ex_begin"]
             /\ UNCHANGED <<slog, hist>>
        ELSE /\ slog' = [slog EXCEPT ![l] = LogReserve(@, Len(b))]
             /\ hist' = [hist EXCEPT ![l] = @ \o Stamped(b, idx(Rep(p), l))]
             /\ th' = [th EXCEPT ![p].at = slog[l].tail, ![p].mode = "cb"]
             /\ pc' = [pc EXCEPT ![p] = IF Len(b) = 0 THEN "ex_begin" ELSE "ap_write"]
  /\ UNCHANGED <<nlogs, home, quota, next, combiners, contexts, buffer, inflight,
                 result, borrow, data, wlock, trace, calls>>

\* Log::append: the reserved entries are written.
AppendWrite(p) ==
  /\ pc[p] = "ap_write"
  /\ slog' = [slog EXCEPT ![Shard(p)] =
                LogWrite(@, th[p].at, buffer[Rep(p)][Shard(p)], idx(Rep(p), Shard(p)))]
  /\ th' = [th EXCEPT ![p].at = 0]
  /\ pc' = [pc EXCEPT ![p] = "ex_begin"]
  /\ UNCHANGED <<nlogs, home, quota, hist, next, combiners, contexts, buffer, inflight,
                 result, borrow, data, wlock, trace, calls>>

\* Where a thread continues when Log::exec returns.
AfterExec(mode) == IF mode = "gc" THEN "gc_head" ELSE IF mode = "vf" THEN "vf_end" ELSE "cb_dist"

\* Log::exec starts: local tail and global tail are read. The round's exec
\* runs under data.write(next), and verify keeps that guard until it ends;
\* the closure of append takes the write lock per entry.
ExecBegin(p) ==
  /\ pc[p] = "ex_begin"
  /\ th[p].mode # "gc" => wlock[Rep(p)] = 0
  /\ LET g == slog[Shard(p)]
         rid == idx(Rep(p), Shard(p))
     IN IF g.ltails[rid] = g.tail
        THEN /\ pc' = [pc EXCEPT ![p] = AfterExec(th[p].mode)]
             /\ wlock' = IF th[p].mode = "vf" THEN [wlock EXCEPT ![Rep(p)] = VerifyId] ELSE wlock
             /\ UNCHANGED th
        ELSE /\ th' = [th EXCEPT ![p].ei = g.ltails[rid], ![p].eg = g.tail]
             /\ wlock' = IF th[p].mode = "gc" THEN wlock
                         ELSE [wlock EXCEPT ![Rep(p)] = IF th[p].mode = "vf" THEN VerifyId ELSE Me(p)]
             /\ pc' = [pc EXCEPT ![p] = "ex_loop"]
  /\ UNCHANGED <<nlogs, home, quota, slog, hist, next, combiners, contexts, buffer, inflight,
                 result, borrow, data, trace, calls>>

\* Log::exec: one entry is consumed once it is written; the closure
\* dispatches it and keeps the response of an entry of this replica.
ExecEntry(p) ==
  /\ pc[p] = "ex_loop" /\ th[p].ei < th[p].eg
  /\ th[p].mode = "gc" => wlock[Rep(p)] = 0
  /\ LET l == Shard(p)
         r == Rep(p)
         rid == idx(r, l)
         e == slog[l].entries[LogIndex(th[p].ei)]
         out == ClosureApply(data[r], e, rid)
     IN /\ LogEntryReady(slog[l], th[p].ei, rid)
        /\ data' = [data EXCEPT ![r] = out.d]
        /\ trace' = [trace EXCEPT ![r][l] = Append(@, [uid |-> e.uid, op |-> e.op])]
        /\ result' = IF th[p].mode # "vf" /\ KeepsResponse(e.replica, r, l)
                     THEN [result EXCEPT ![r] = Append(@, Resp(out.r, e.uid))]
                     ELSE result
        /\ slog' = [slog EXCEPT ![l] = LogConsumed(@, th[p].ei, rid)]
        /\ th' = [th EXCEPT ![p].ei = @ + 1,
                            ![p].gcn = IF th[p].mode = "gc" THEN @ + 1 ELSE @]
  /\ UNCHANGED <<nlogs, home, quota, hist, next, combiners, contexts, buffer, inflight,
                 borrow, wlock, pc, calls>>

\* Log::exec ends: ctail and the local tail are published.
ExecEnd(p) ==
  /\ pc[p] = "ex_loop" /\ th[p].ei = th[p].eg
  /\ slog' = [slog EXCEPT ![Shard(p)] = LogExecEnd(@, idx(Rep(p), Shard(p)), th[p].eg)]
  /\ wlock' = IF th[p].mode = "cb" THEN [wlock EXCEPT ![Rep(p)] = 0] ELSE wlock
  /\ th' = [th EXCEPT ![p].ei = 0, ![p].eg = 0]
  /\ pc' = [pc EXCEPT ![p] = AfterExec(th[p].mode)]
  /\ UNCHANGED <<nlogs, home, quota, hist, next, combiners, contexts, buffer, inflight,
                 result, borrow, data, trace, calls>>

\* Log::append after the replay: head moves to the slowest replica's cursor
\* and the reservation is tried again.
GcAdvanceHead(p) ==
  /\ pc[p] = "gc_head"
  /\ slog' = [slog EXCEPT ![Shard(p)] = LogAdvanceHead(@)]
  /\ th' = [th EXCEPT ![p].mode = "cb"]
  /\ pc' = [pc EXCEPT ![p] = "ap"]
  /\ UNCHANGED <<nlogs, home, quota, hist, next, combiners, contexts, buffer, inflight,
                 result, borrow, data, wlock, trace, calls>>

\* combine: responses go back to the contexts; then the borrows are dropped.
\* A slice out of range panics the thread (unwinding drops the borrows).
CombineDistribute(p) ==
  /\ pc[p] = "cb_dist"
  /\ LET r == Rep(p)
         d == Distribute(contexts[r], inflight[r], result[r], 1, 0, 0, th[p].cnext)
     IN /\ contexts' = [contexts EXCEPT ![r] = d.ctxs]
        /\ inflight' = [inflight EXCEPT ![r] = d.ops]
        /\ borrow' = [borrow EXCEPT ![r] = [inflight |-> @.inflight + 1, result |-> @.result + 1]]
        /\ pc' = [pc EXCEPT ![p] = IF d.ok THEN "tc_release" ELSE "panicked"]
  /\ th' = [th EXCEPT ![p].cnext = 0, ![p].gcn = 0]
  /\ UNCHANGED <<nlogs, home, quota, slog, hist, next, combiners, buffer,
                 result, data, wlock, trace, calls>>

\* try_combine: self.combiners[hashidx].store(0)
CombineRelease(p) ==
  /\ pc[p] = "tc_release"
  /\ combiners' = [combiners EXCEPT ![Rep(p)][Shard(p)] = 0]
  /\ pc' = [pc EXCEPT ![p] = th[p].ret]
  /\ UNCHANGED <<nlogs, home, quota, slog, hist, next, contexts, buffer, inflight,
                 result, borrow, data, wlock, trace, th, calls>>

\* get_response: res() on the thread's context; without a response the
\* thread tries to combine again (after its interval of polls).
GetResponse(p) ==
  /\ pc[p] = "gr"
  /\ LET c == contexts[Rep(p)][Me(p)]
     IN IF CtxHasRes(c)
        THEN /\ contexts' = [contexts EXCEPT ![Rep(p)][Me(p)] = CtxResTake(c)]
             /\ calls' = [calls EXCEPT ![th[p].uid].resp = CtxResValue(c),
                                       ![th[p].uid].done = TRUE]
             /\ th' = [th EXCEPT ![p] = Idle(@)]
             /\ pc' = [pc EXCEPT ![p] = "idle"]
        ELSE /\ pc' = [pc EXCEPT ![p] = "tc"]
             /\ UNCHANGED <<contexts, calls, th>>
  /\ UNCHANGED <<nlogs, home, quota, slog, hist, next, combiners, buffer, inflight,
                 result, borrow, data, wlock, trace>>

\* execute(op, idx) -> read_only: the operation is hashed and ctail is read.
StartRead(p) ==
  /\ MayCall(p) /\ Me(p) # 0
  /\ calls' = [calls EXCEPT ![NextUid(p)] = [NoCall EXCEPT !.kind = "rd", !.before = Returned]]
  /\ th' = [th EXCEPT ![p].uid = NextUid(p), ![p].hash = ReadHash,
                      ![p].rctail = slog[HashIdx(ReadHash)].ctail]
  /\ pc' = [pc EXCEPT ![p] = "rd_sync"]
  /\ quota' = [quota EXCEPT ![p] = @ - 1]
  /\ UNCHANGED <<nlogs, home, slog, hist, next, combiners, contexts, buffer, inflight,
                 result, borrow, data, wlock, trace>>

\* read_only: while the replica is not synced up to ctail, try_combine.
ReadSync(p) ==
  /\ pc[p] = "rd_sync"
  /\ IF ReadSynced(slog[Shard(p)], idx(Rep(p), Shard(p)), th[p].rctail)
     THEN /\ pc' = [pc EXCEPT ![p] = "rd_disp"]
          /\ UNCHANGED th
     ELSE /\ pc' = [pc EXCEPT ![p] = "tc"]
          /\ th' = [th EXCEPT ![p].ret = "rd_sync"]
  /\ UNCHANGED <<nlogs, home, quota, slog, hist, next, combiners, contexts, buffer, inflight,
                 result, borrow, data, wlock, trace, calls>>

\* read_only: self.data.read(tid - 1).dispatch(op)
ReadDispatch(p) ==
  /\ pc[p] = "rd_disp"
  /\ wlock[Rep(p)] = 0
  /\ th' = [th EXCEPT ![p] = Idle(@)]
  /\ calls' = [calls EXCEPT ![th[p].uid].resp = Resp(dispatch(data[Rep(p)], ReadOp), th[p].uid),
                            ![th[p].uid].seen = trace[Rep(p)][Shard(p)],
                            ![th[p].uid].done = TRUE]
  /\ pc' = [pc EXCEPT ![p] = "idle"]
  /\ UNCHANGED <<nlogs, home, quota, slog, hist, next, combiners, contexts, buffer, inflight,
                 result, borrow, data, wlock, trace>>

\* verify(v): the combiner lock of shard 0 is taken with an id no thread has.
StartVerify(p) ==
  /\ MayCall(p)
  /\ VerifyMayEnter(combiners[Rep(p)][0])
  /\ combiners' = [combiners EXCEPT ![Rep(p)][0] = VerifyId]
  /\ calls' = [calls EXCEPT ![NextUid(p)] = [NoCall EXCEPT !.kind = "vf"]]
  /\ th' = [th EXCEPT ![p].uid = NextUid(p), ![p].hash = 0, ![p].mode = "vf"]
  /\ pc' = [pc EXCEPT ![p] = "ex_begin"]
  /\ quota' = [quota EXCEPT ![p] = @ - 1]
  /\ UNCHANGED <<nlogs, home, slog, hist, next, contexts, buffer, inflight,
                 result, borrow, data, wlock, trace>>

\* verify: v(&data), then self.combiners[0].store(0); the guard is dropped.
EndVerify(p) ==
  /\ pc[p] = "vf_end"
  /\ combiners' = [combiners EXCEPT ![Rep(p)][0] = 0]
  /\ calls' = [calls EXCEPT ![th[p].uid].resp = Resp(dispatch(data[Rep(p)], ReadOp), th[p].uid),
                            ![th[p].uid].seen = trace[Rep(p)][0],
                            ![th[p].uid].done = TRUE]
  /\ th' = [th EXCEPT ![p] = Idle(@)]
  /\ wlock' = [wlock EXCEPT ![Rep(p)] = 0]
  /\ pc' = [pc EXCEPT ![p] = "idle"]
  /\ UNCHANGED <<nlogs, home, quota, slog, hist, next, contexts, buffer, inflight,
                 result, borrow, data, trace>>

\* The write operations a call may carry: a pop, or a push of its own value.
WriteOps(p) == {Pop, Push(NextUid(p))}

ExecuteMut(p) == \E op \in WriteOps(p) : StartMut(p, op)

\* The steps a thread takes inside a call it has started.
Step(p) ==
  \/ MakePending(p)
  \/ TryCombine(p)
  \/ CombineBorrow(p)
  \/ CombineBegin(p)
  \/ CombineCollect(p)
  \/ AppendTry(p)
  \/ AppendWrite(p)
  \/ ExecBegin(p)
  \/ ExecEntry(p)
  \/ ExecEnd(p)
  \/ CombineDistribute(p)
  \/ CombineRelease(p)
  \/ GetResponse(p)

Next ==
  \E p \in Procs :
    \/ Register(p)
    \/ RegisterCas(p)
    \/ ExecuteMut(p)
    \/ Step(p)
    \/ GcAdvanceHead(p)
    \/ StartRead(p)
    \/ ReadSync(p)
    \/ ReadDispatch(p)
    \/ StartVerify(p)
    \/ EndVerify(p)

Spec == Init /\ [][Next]_vars

SpecSharded == InitSharded /\ [][Next]_vars

\* The calls of register() alone, by threads that may hold tokens already.
NextRegister ==
  \E p \in Procs :
    \/ RegisterLoad(p)
    \/ RegisterCas(p)

\* Three threads race to register with a fresh replica, again and again.
SpecRegister == InitRegister /\ [][NextRegister]_vars

\* A test calls make_pending(op, tid, hash) itself, for its own thread id.
CallMakePending(p) ==
  /\ MayCall(p) /\ Me(p) # 0
  /\ \E op \in WriteOps(p) :
       LET m == make_pending(contexts[Rep(p)][Me(p)], op, NextUid(p), HashOf(op))
       IN /\ contexts' = [contexts EXCEPT ![Rep(p)][Me(p)] = m.c]
          /\ calls' = [calls EXCEPT ![NextUid(p)] =
                         [NoCall EXCEPT !.kind = IF m.ok THEN "mp" ELSE "mp_full",
                                        !.op = op, !.done = TRUE]]
  /\ quota' = [quota EXCEPT ![p] = @ - 1]
  /\ UNCHANGED <<nlogs, home, slog, hist, next, combiners, buffer, inflight,
                 result, borrow, data, wlock, trace, pc, th>>

\* A test calls try_combine(tid, 0) itself.
CallTryCombine(p) ==
  /\ pc[p] = "idle" /\ Me(p) # 0
  /\ pc' = [pc EXCEPT ![p] = "tc"]
  /\ UNCHANGED <<nlogs, home, quota, slog, hist, next, combiners, contexts, buffer, inflight,
                 result, borrow, data, wlock, trace, th, calls>>

\* A test calls contexts[tid - 1].res() itself: a response, if there is one,
\* is taken from the context.
CallRes(p) ==
  /\ pc[p] = "idle" /\ Me(p) # 0
  /\ CtxHasRes(contexts[Rep(p)][Me(p)])
  /\ contexts' = [contexts EXCEPT ![Rep(p)][Me(p)] = CtxResTake(@)]
  /\ UNCHANGED <<nlogs, home, quota, slog, hist, next, combiners, buffer, inflight,
                 result, borrow, data, wlock, trace, pc, th, calls>>

\* The steps of a round a thread entered through try_combine.
Round(p) ==
  \/ TryCombine(p)
  \/ CombineBorrow(p)
  \/ CombineBegin(p)
  \/ CombineCollect(p)
  \/ AppendTry(p)
  \/ AppendWrite(p)
  \/ ExecBegin(p)
  \/ ExecEntry(p)
  \/ ExecEnd(p)
  \/ GcAdvanceHead(p)
  \/ CombineDistribute(p)
  \/ CombineRelease(p)

NextDirect ==
  \E p \in Procs :
    \/ CallMakePending(p)
    \/ CallTryCombine(p)
    \/ CallRes(p)
    \/ Round(p)

\* The unit tests' way of driving a replica: three registered threads of
\* replica 1 call make_pending, try_combine and res() themselves.
SpecDirect == InitDirect /\ [][NextDirect]_vars

\* Registration and the write path.
NextLate ==
  \E p \in Procs :
    \/ Register(p)
    \/ RegisterCas(p)
    \/ ExecuteMut(p)
    \/ Step(p)

\* Threads register while a sibling's round is running; every thread that
\* can take a step of the call it is in eventually takes one.
SpecLate ==
  InitLate /\ [][NextLate]_vars /\ \A p \in Procs : WF_vars(Step(p) \/ RegisterCas(p))

\* Thread p has issued a call.
Called(p) == \E u \in Issued : OwnerOf(u) = p

\* A client in which thread 1 calls execute_mut and then execute, and the
\* other threads call execute_mut.
ExecuteWrite(p) == (p = 1 => ~Called(p)) /\ ExecuteMut(p)
ExecuteRead(p) == p = 1 /\ Called(p) /\ StartRead(p)

NextReads ==
  \E p \in Procs :
    \/ ExecuteWrite(p)
    \/ Step(p)
    \/ GcAdvanceHead(p)
    \/ ExecuteRead(p)
    \/ ReadSync(p)
    \/ ReadDispatch(p)

\* Three threads of one replica over two logs: each writes, thread 1 then reads.
SpecShardedReads == InitShardedReads /\ [][NextReads]_vars

\* The steps of the write path.
NextMut ==
  \E p \in Procs :
    \/ ExecuteMut(p)
    \/ Step(p)

\* Two threads of one replica over two logs, one execute_mut each; every
\* thread that can take a step eventually takes one.
SpecFair ==
  InitFair /\ [][NextMut]_vars /\ \A p \in Procs : WF_vars(Step(p))

\* A client in which thread 2 calls execute and the other threads execute_mut.
WriterCalls(p) == p # 2 /\ ExecuteMut(p)
ReaderCalls(p) == p = 2 /\ StartRead(p)

\* The steps a thread takes inside an execute it has started.
ReadStep(p) == ReadSync(p) \/ ReadDispatch(p)

NextFairReads ==
  \E p \in Procs :
    \/ WriterCalls(p)
    \/ ReaderCalls(p)
    \/ Step(p)
    \/ ReadStep(p)

\* Two replicas over two logs, a reader and a writer on replica 1 and a
\* writer on replica 2; every thread that can take a step of its call
\* eventually takes one.
SpecFairReads ==
  InitFairReads /\ [][NextFairReads]_vars
    /\ \A p \in Procs : WF_vars(Step(p) \/ ReadStep(p))

(***************************************************************************)
(* Properties.                                                             *)
(***************************************************************************)
\* The shards in use.
LiveShards == 0..(nlogs - 1)
\* The calls and the operations of a log, in index order.
HistCalls(l) == [i \in 1..Len(hist[l]) |-> [uid |-> hist[l][i].uid, op |-> hist[l][i].op]]
HistOps(l) == [i \in 1..Len(hist[l]) |-> hist[l][i].op]
HistOrigins(l) == {hist[l][i].replica : i \in 1..Len(hist[l])}
IsPrefix(s, t) == Len(s) <= Len(t) /\ \A i \in 1..Len(s) : s[i] = t[i]
NoDup(s) == \A i, j \in 1..Len(s) : s[i] = s[j] => i = j
Occurs(u, s) == \E i \in 1..Len(s) : s[i].uid = u
\* The shard a write call is routed to.
ShardOfCall(u) == HashIdx(HashOf(calls[u].op))
\* The threads inside a combining round (or inside verify) of their replica.
InRound(p) == pc[p] \in {"cb_borrow", "cb_begin", "cb_collect", "ap", "ap_write", "ex_begin",
                         "ex_loop", "gc_head", "cb_dist", "tc_release", "vf_end"}
\* The index up to which replica r has replayed log l: the cursor of the
\* exec that is running, else the replica's local tail.
Replayed(r, l) ==
  LET running == {p \in Procs : Rep(p) = r /\ pc[p] = "ex_loop" /\ Shard(p) = l}
  IN IF running = {} THEN slog[l].ltails[idx(r, l)]
     ELSE th[CHOOSE p \in running : TRUE].ei

\* C1 - Linearizability per shard: on every replica and for every shard, the
\* sequence of operations passed to dispatch_mut is at every moment a prefix
\* of the operations of that shard's log in index order.
C1_LogOrder ==
  \A r \in ReplicaIds, l \in LiveShards : IsPrefix(trace[r][l], HistCalls(l))

\* A replica has dispatched three entries of a two-entry log (the log wrapped),
\* appended by both replicas.
C1_Witness ==
  \E r \in ReplicaIds : Len(trace[r][0]) = 3 /\ HistOrigins(0) = {1, 2}

\* C2 - Response fidelity: the response an execute_mut call returns is the
\* response produced for that very operation, and (one log) it is what the
\* sequential dispatch_mut answers when the log is applied in index order to
\* the default structure up to and including the operation.
C2_ResponseFidelity ==
  \A u \in Returned :
    /\ calls[u].resp.of = u
    /\ nlogs = 1 => \E k \in 1..Len(hist[0]) :
                      /\ hist[0][k].uid = u
                      /\ calls[u].resp.v = RespAt(HistOps(0), k)

\* A pop has returned a value pushed by another thread.
C2_Witness ==
  \E u \in Returned : /\ calls[u].op = Pop
                       /\ calls[u].resp.v >= 1
                       /\ calls[u].resp.of = u
                       /\ OwnerOf(calls[u].resp.v) # OwnerOf(u)

\* C3 - Read freshness: the state a read is dispatched against includes
\* every write of the read's shard whose execute_mut had returned before the
\* read started.
C3_ReadFreshness ==
  \A u \in Uids :
    calls[u].kind = "rd" /\ calls[u].done =>
      \A w \in calls[u].before :
        ShardOfCall(w) = HashIdx(ReadHash) => Occurs(w, calls[u].seen)

\* C4 - No lost or duplicated operations: no call is appended twice to a
\* log or dispatched twice by a replica, a call that returned is in its
\* shard's log, and a replica that has replayed a log up to the tail has
\* dispatched exactly the entries of that log.
C4_ExactlyOnce ==
  /\ \A l \in LiveShards : NoDup(HistCalls(l))
  /\ \A r \in ReplicaIds, l \in LiveShards : NoDup(trace[r][l])
  /\ \A u \in Returned : Occurs(u, HistCalls(ShardOfCall(u)))
  /\ \A r \in ReplicaIds, l \in LiveShards :
       slog[l].ltails[idx(r, l)] = slog[l].tail => trace[r][l] = HistCalls(l)

\* C5 - Every execute_mut call eventually returns when every thread that can
\* take a step eventually takes one.
C5_EveryCallReturns ==
  \A p \in Procs : (pc[p] = "mp") ~> (pc[p] = "idle")

\* C6 - Combiner mutual exclusion: two threads of one replica are never
\* inside a combining round (or verify) for the same shard, and the thread
\* inside holds that shard's lock under its own id.
C6_OneCombiner ==
  /\ \A p, q \in Procs :
       p # q /\ InRound(p) /\ InRound(q) /\ Rep(p) = Rep(q) => Shard(p) # Shard(q)
  /\ \A p \in Procs :
       InRound(p) => combiners[Rep(p)][Shard(p)] = IF th[p].mode = "vf" THEN VerifyId ELSE Me(p)

\* A thread is inside a round while another thread of the replica, with an
\* operation pending for the same shard, is kept outside and polls.
C6_Witness ==
  \E p, q \in Procs :
    /\ p # q /\ Rep(p) = Rep(q) /\ Shard(p) = Shard(q)
    /\ InRound(p) /\ pc[q] = "gr"
    /\ Len(CtxAllPending(contexts[Rep(q)][Me(q)])) > 0

\* C7 - Shards combine in parallel without interfering: no round panics,
\* and when a round hands out its responses the in-flight counts and the
\* staged responses are those of the operations it drained for its own shard.
C7_ShardsIndependent ==
  \A p \in Procs :
    /\ pc[p] # "panicked"
    /\ pc[p] = "cb_dist" =>
         LET r == Rep(p)
             b == buffer[r][Shard(p)]
         IN /\ \A t \in Tids :
                 inflight[r][t] =
                   Cardinality({j \in 1..Len(b) : th[OwnerOf(b[j].uid)].tid = t})
            /\ [j \in 1..Len(result[r]) |-> result[r][j].of] =
                 [j \in 1..Len(b) |-> b[j].uid]

\* C8 - Replica convergence (one log): a replica that has replayed the log
\* to index k holds the state obtained by applying the first k operations of
\* the log to the default state; so replicas at the same index are equal.
C8_Convergence ==
  nlogs = 1 =>
    /\ \A r \in ReplicaIds :
         data[r] = ApplyAll(SubSeq(HistOps(0), 1, Replayed(r, 0)))
    /\ \A r1, r2 \in ReplicaIds :
         Replayed(r1, 0) = Replayed(r2, 0) => data[r1] = data[r2]

\* Both replicas have replayed a wrapped log of three entries, appended by
\* both replicas, up to the tail and hold a state other than the default.
C8_Witness ==
  /\ nlogs = 1 /\ slog[0].tail = 3 /\ HistOrigins(0) = {1, 2}
  /\ \A r \in ReplicaIds : Replayed(r, 0) = 3
  /\ data[1] = data[2] /\ data[1].storage # DefaultData.storage

\* C9 - Context FIFO: in every context the completed slots come before the
\* pending ones, and a completed slot carries the response to the operation
\* enqueued in that slot, so the k-th response a thread consumes answers the
\* k-th operation it enqueued.
C9_ContextFifo ==
  \A r \in ReplicaIds, t \in Tids :
    LET c == contexts[r][t]
    IN \A i \in c.head..(c.tail - 1) :
         c.batch[i % BatchSize].state = "Done" =>
           /\ c.batch[i % BatchSize].resp.of = c.batch[i % BatchSize].uid
           /\ \A j \in c.head..(i - 1) : c.batch[j % BatchSize].state = "Done"

\* C10 - Monotonic log pointers: no step decreases head, tail, ctail or a
\* replica's local tail of any log.
C10_MonotonicPointers ==
  [][\A l \in Shards :
       /\ slog'[l].head >= slog[l].head
       /\ slog'[l].tail >= slog[l].tail
       /\ slog'[l].ctail >= slog[l].ctail
       /\ \A r \in ReplicaIds : slog'[l].ltails[r] >= slog[l].ltails[r]]_vars

\* Every pointer has moved: head by a GC, and the replicas' cursors differ.
C10_Witness ==
  /\ slog[0].head >= 1 /\ slog[0].tail = 3 /\ slog[0].ctail >= 2
  /\ slog[0].ltails[1] # slog[0].ltails[2]

\* No append or exec is in progress on log l.
Quiescent(l) ==
  \A p \in Procs :
    pc[p] \in {"ap", "ap_write", "ex_begin", "ex_loop", "gc_head"} => Shard(p) # l

\* C11 - Log pointer ordering and bounded occupancy: for every log,
\* head <= min ltails <= ctail <= tail (and ltails[r] <= ctail for every
\* replica) when no append or exec is in progress, tail - head <= N always,
\* and the slots an append writes hold entries every replica has replayed.
C11_PointerOrder ==
  \A l \in LiveShards :
    LET g == slog[l]
    IN /\ g.tail - g.head <= LogSize
       /\ Quiescent(l) =>
            /\ g.head <= LogMinLtail(g)
            /\ LogMinLtail(g) <= g.ctail
            /\ \A r \in ReplicaIds : g.ltails[r] <= g.ctail
            /\ g.ctail <= g.tail
       /\ \A p \in Procs :
            pc[p] = "ap_write" /\ Shard(p) = l =>
              \A r \in ReplicaIds :
                th[p].at + Len(buffer[Rep(p)][l]) - 1 - LogSize < g.ltails[r]

\* The log is full and an append is writing over a slot used before.
C11_Witness ==
  \E p \in Procs :
    /\ pc[p] = "ap_write" /\ th[p].at >= LogSize
    /\ slog[0].tail - slog[0].head = LogSize /\ slog[0].head >= 1

\* The tokens register() has returned on replica r, and their number.
Tokens(r) ==
  UNION {{th[p].toks[i] : i \in 1..Len(th[p].toks)} : p \in {q \in Procs : home[q] = r}}
Given(r, p) == IF home[p] = r THEN Len(th[p].toks) ELSE 0
NumGiven(r) == Given(r, 1) + Given(r, 2) + Given(r, 3)

\* C12 - Registration hands out unique, increasing ids: on every replica the
\* tokens returned so far are exactly 1..next-1, each returned once (as many
\* tokens as next - 1), never 0, and each thread receives increasing tokens.
C12_UniqueTokens ==
  \A r \in ReplicaIds :
    /\ Tokens(r) = 1..(next[r] - 1)
    /\ NumGiven(r) = next[r] - 1
    /\ 0 \notin Tokens(r)
    /\ \A p \in Procs :
         \A i, j \in 1..Len(th[p].toks) : i < j => th[p].toks[i] < th[p].toks[j]

\* Racing threads were given all the tokens: one thread two of them, another
\* thread the token in between.
C12_Witness ==
  \E p, q \in Procs :
    /\ p # q /\ th[p].toks = <<1, 3>> /\ th[q].toks = <<2>>
    /\ next[1] = MAX_THREADS_PER_REPLICA + 1

\* C13 - Register overflow: at most T_max tokens are handed out; register()
\* returns None only when T_max tokens have been handed out; and a call made
\* after that returns None and leaves next, the thread's tokens and all other
\* replica state unchanged.
C13_RegisterOverflow ==
  /\ [](\A r \in ReplicaIds :
          /\ NumGiven(r) <= MAX_THREADS_PER_REPLICA
          /\ next[r] <= MAX_THREADS_PER_REPLICA + 1
          /\ \A p \in Procs :
               home[p] = r /\ th[p].rres = None => NumGiven(r) = MAX_THREADS_PER_REPLICA)
  /\ [][\A p \in Procs :
          pc[p] = "rg" /\ th[p].ridx > MAX_THREADS_PER_REPLICA /\ pc'[p] # "rg" =>
            /\ th'[p].rres = None
            /\ th'[p].toks = th[p].toks /\ th'[p].tid = th[p].tid
            /\ UNCHANGED <<next, slog, combiners, contexts, buffer, inflight, result,
                           borrow, data, wlock>>]_vars

\* All tokens are handed out and a further register() has returned None to a
\* thread that holds a token.
C13_Witness ==
  \E p \in Procs :
    /\ pc[p] = "idle" /\ th[p].rres = None /\ Len(th[p].toks) >= 1
    /\ NumGiven(1) = MAX_THREADS_PER_REPLICA

\* Thread p's make_pending returns in this step: a call of the test, or a
\* turn of execute_mut's loop.
MakePendingReturns(p) ==
  \/ /\ NextUid(p) \in Uids
     /\ calls[NextUid(p)].kind = "no" /\ calls'[NextUid(p)].kind \in {"mp", "mp_full"}
  \/ pc[p] = "mp" /\ (pc'[p] = "tc" \/ (pc'[p] = "mp" /\ UNCHANGED vars))
MakePendingTrue(p) ==
  \/ /\ NextUid(p) \in Uids
     /\ calls[NextUid(p)].kind = "no" /\ calls'[NextUid(p)].kind = "mp"
  \/ pc[p] = "mp" /\ pc'[p] = "tc"

\* C14 - Context full: a context never holds more than B operations; a
\* make_pending on a context that holds B operations returns false and leaves
\* the context unchanged; on a context with fewer it returns true and adds
\* the operation at the tail.
C14_ContextFull ==
  /\ [](\A r \in ReplicaIds, t \in Tids :
          /\ contexts[r][t].tail - contexts[r][t].head \in 0..BatchSize
          /\ Len(CtxAllPending(contexts[r][t])) <= BatchSize)
  /\ [][\A p \in Procs :
          Me(p) # 0 /\ MakePendingReturns(p) =>
            LET c == contexts[Rep(p)][Me(p)]
                d == contexts'[Rep(p)][Me(p)]
            IN IF c.tail - c.head >= BatchSize
               THEN ~MakePendingTrue(p) /\ d = c
               ELSE /\ MakePendingTrue(p)
                    /\ d.tail = c.tail + 1 /\ d.head = c.head
                    /\ d.batch[c.tail % BatchSize].state = "Pending"]_vars

\* Without any combiner run a thread filled its context with B pending
\* operations and its next make_pending returned false.
C14_Witness ==
  \E u \in Uids :
    /\ calls[u].kind = "mp_full"
    /\ Len(CtxAllPending(contexts[1][th[OwnerOf(u)].tid])) = BatchSize
    /\ Len(hist[0]) = 0

\* C15 - Combiner exclusion has no side effects: a try_combine that finds its
\* shard's lock held returns and leaves the lock, the contexts, the staging
\* buffers, the logs and the data unchanged (so no response appears); one
\* that finds the lock free takes it under the caller's id and starts a round.
C15_TryCombineHeld ==
  [][\A p \in Procs :
       pc[p] = "tc" /\ pc'[p] # "tc" =>
         IF combiners[Rep(p)][Shard(p)] # 0
         THEN /\ pc'[p] = th[p].ret
              /\ UNCHANGED <<combiners, contexts, buffer, inflight, result, slog, hist,
                             data, trace, wlock>>
         ELSE /\ combiners'[Rep(p)][Shard(p)] = Me(p)
              /\ pc'[p] = "cb_borrow"]_vars

\* A thread with a pending operation has come back from try_combine while
\* another thread holds the lock and has not collected yet: nothing was
\* appended or dispatched and the thread has no response.
C15_Witness ==
  \E p, q \in Procs :
    /\ p # q /\ Rep(p) = Rep(q)
    /\ pc[p] = "gr" /\ pc[q] \in {"cb_borrow", "cb_begin", "cb_collect"}
    /\ combiners[Rep(q)][0] = Me(q)
    /\ ~CtxHasRes(contexts[Rep(p)][Me(p)])
    /\ Len(CtxAllPending(contexts[Rep(p)][Me(p)])) = 1
    /\ slog[0].tail = 0 /\ data[Rep(p)] = DefaultData

\* The writes that had returned on another replica when read u started.
ExternalBefore(u) ==
  {w \in calls[u].before : home[OwnerOf(w)] # home[OwnerOf(u)]}

\* C16 - Read after external append (one log): a read that has returned was
\* dispatched on a state in which every operation appended and replayed by
\* another replica before the read started had been dispatched on the
\* reader's replica: they are in the replica's dispatch history and the
\* count the read returns covers them.
C16_ReadAfterExternalAppend ==
  nlogs = 1 =>
    \A u \in Uids :
      calls[u].kind = "rd" /\ calls[u].done =>
        /\ \A w \in ExternalBefore(u) : Occurs(w, calls[u].seen)
        /\ calls[u].resp.v >= Cardinality(ExternalBefore(u))

\* Replica 2 appended and replayed two operations; replica 1 appended
\* nothing, and its only call, a read, returned 2.
C16_Witness ==
  \E u \in Uids :
    /\ calls[u].kind = "rd" /\ calls[u].done /\ home[OwnerOf(u)] = 1
    /\ Cardinality(ExternalBefore(u)) = 2
    /\ HistOrigins(0) = {2}
    /\ calls[u].resp.v = 2

\* The calls whose operations are pending for shard l in the contexts of the
\* thread ids below n of replica r.
PendingCalls(r, l, n) ==
  UNION {{contexts[r][t].batch[i % BatchSize].uid :
            i \in {j \in contexts[r][t].head..(contexts[r][t].tail - 1) :
                     /\ contexts[r][t].batch[j % BatchSize].state = "Pending"
                     /\ contexts[r][t].batch[j % BatchSize].hash % nlogs = l}} :
         t \in 1..(n - 1)}
\* The calls staged in a buffer.
BufferCalls(b) == {b[j].uid : j \in 1..Len(b)}
\* Call u has its own response: in its thread's context, or returned.
Answered(r, u) ==
  \/ \E t \in Tids, i \in 0..(BatchSize - 1) :
       /\ contexts[r][t].batch[i].uid = u /\ contexts[r][t].batch[i].state = "Done"
       /\ contexts[r][t].batch[i].resp.of = u
       /\ t = th[OwnerOf(u)].tid
  \/ calls[u].done /\ calls[u].resp.of = u

\* C17 - A round serves all registered sibling threads: the round collects
\* every operation pending for its shard in the contexts of the thread ids
\* below T_cur; when it has handed out its responses every collected
\* operation is in the log, was dispatched once on the replica and has its
\* own response in its thread's context (or has returned it); and the round
\* leaves the lock at 0.
C17_RoundServesAll ==
  /\ [](\A p \in Procs :
          pc[p] = "tc_release" =>
            \A u \in BufferCalls(buffer[Rep(p)][Shard(p)]) :
              /\ Occurs(u, HistCalls(Shard(p)))
              /\ Cardinality({i \in 1..Len(trace[Rep(p)][Shard(p)]) :
                                trace[Rep(p)][Shard(p)][i].uid = u}) = 1
              /\ Answered(Rep(p), u))
  /\ [][\A p \in Procs :
          /\ pc[p] = "cb_collect" /\ pc'[p] # "cb_collect" =>
               BufferCalls(buffer'[Rep(p)][Shard(p)]) =
                 PendingCalls(Rep(p), Shard(p), th[p].cnext)
          /\ pc[p] = "tc_release" /\ pc'[p] # "tc_release" =>
               combiners'[Rep(p)][Shard(p)] = 0]_vars

\* A round has answered an operation of a sibling thread that is still about
\* to call try_combine for the first time.
C17_Witness ==
  \E p, q \in Procs :
    /\ p # q /\ Rep(p) = Rep(q) /\ pc[p] = "tc_release" /\ pc[q] = "tc"
    /\ th[q].ret = "gr"
    /\ th[q].uid \in BufferCalls(buffer[Rep(p)][Shard(p)])
    /\ CtxHasRes(contexts[Rep(q)][Me(q)])

\* Thread p is running a round (or verify) under the lock of shard l of
\* replica r, which it took with id v.
RunsUnder(p, r, l, v) ==
  /\ Rep(p) = r /\ Shard(p) = l /\ InRound(p)
  /\ v = IF th[p].mode = "vf" THEN VerifyId ELSE Me(p)

\* C18 - Combiner lock state machine: a lock changes only from 0 to the id
\* of the thread whose CAS took it (try_combine, or verify with its own id),
\* and from that id to 0 by the store of that holder at the end of its round;
\* and a lock that is not 0 holds the id of the thread running the round.
C18_LockStateMachine ==
  /\ [](\A r \in ReplicaIds, l \in LiveShards :
          combiners[r][l] # 0 => \E p \in Procs : RunsUnder(p, r, l, combiners[r][l]))
  /\ [][\A r \in ReplicaIds, l \in LiveShards :
          combiners'[r][l] # combiners[r][l] =>
            \/ /\ combiners[r][l] = 0
               /\ \E p \in Procs :
                    /\ Rep(p) = r /\ pc[p] \in {"tc", "idle"} /\ pc'[p] \in {"cb_borrow", "ex_begin"}
                    /\ combiners'[r][l] = IF pc[p] = "tc" THEN Me(p) ELSE VerifyId
            \/ /\ combiners'[r][l] = 0
               /\ \E p \in Procs :
                    /\ RunsUnder(p, r, l, combiners[r][l])
                    /\ pc[p] \in {"tc_release", "vf_end"} /\ pc'[p] # pc[p]]_vars

\* A lock is taken for the second time: a thread holds it after a sibling's
\* round on the same shard has ended and that sibling's call has returned.
C18_Witness ==
  \E p, q \in Procs, u \in Returned :
    /\ p # q /\ Rep(p) = Rep(q) /\ OwnerOf(u) = p /\ calls[u].resp.of = u
    /\ InRound(q) /\ Shard(q) = ShardOfCall(u)
    /\ combiners[Rep(q)][Shard(q)] = Me(q)

\* The shard an operation is routed to.
ShardOfOp(op) == HashIdx(HashOf(op))
\* Thread p takes a step of a round for shard l of replica r.
RoundStep(p, r, l) ==
  /\ Rep(p) = r /\ Shard(p) = l /\ InRound(p)
  /\ (pc'[p] # pc[p] \/ th'[p] # th[p])

\* C19 - Shard isolation of draining: the operations a round stages for
\* shard l and the entries of log l all have hash mod L = l; and a step of a
\* round for shard l leaves every pending operation of another shard as it
\* is in its context.
C19_ShardIsolation ==
  /\ [](\A l \in LiveShards :
          /\ \A i \in 1..Len(hist[l]) : ShardOfOp(hist[l][i].op) = l
          /\ \A r \in ReplicaIds :
               \A j \in 1..Len(buffer[r][l]) : ShardOfOp(buffer[r][l][j].op) = l)
  /\ [][\A p \in Procs, r \in ReplicaIds, l \in LiveShards :
          RoundStep(p, r, l) =>
            \A t \in Tids, i \in 0..(BatchSize - 1) :
              /\ contexts[r][t].batch[i].state = "Pending"
              /\ contexts[r][t].batch[i].hash % nlogs # l
              => contexts'[r][t].batch[i] = contexts[r][t].batch[i]]_vars

\* A round for one shard hands out its responses while a sibling's operation
\* for the other shard is pending, and leaves it pending.
C19_Witness ==
  \E p, q \in Procs :
    /\ p # q /\ Rep(p) = Rep(q) /\ pc[p] = "tc_release" /\ pc[q] \in {"tc", "gr"}
    /\ Len(buffer[Rep(p)][Shard(p)]) >= 1
    /\ Shard(q) # Shard(p)
    /\ Len(CtxPending(contexts[Rep(q)][Me(q)], Shard(q), nlogs)) = 1

\* Thread p is in a round that has taken its snapshot of next.
Snapshot(p) == pc[p] \in {"cb_collect", "ap", "ap_write", "ex_begin", "ex_loop", "gc_head", "cb_dist"}
\* Thread q, with an operation pending, is not covered by the snapshot of a
\* round that is running on its replica.
LateFor(q, p) ==
  /\ p # q /\ Rep(p) = Rep(q) /\ Snapshot(p) /\ th[p].mode # "vf"
  /\ Me(q) >= th[p].cnext /\ pc[q] \in {"tc", "gr"}

\* C20 - Late-registering threads: a round stages and answers only
\* operations of the thread ids below its snapshot of next; its steps leave
\* the contexts of later thread ids as they are, so their operations stay
\* pending; and a thread that a running round does not cover gets its
\* operation answered later: its call returns.
C20_LateRegistration ==
  /\ [](\A p \in Procs :
          Snapshot(p) /\ th[p].mode # "vf" =>
            \A j \in 1..Len(buffer[Rep(p)][Shard(p)]) :
              th[OwnerOf(buffer[Rep(p)][Shard(p)][j].uid)].tid < th[p].cnext)
  /\ [][\A p \in Procs :
          Snapshot(p) /\ th[p].mode # "vf" /\ RoundStep(p, Rep(p), Shard(p)) =>
            \A t \in Tids : t >= th[p].cnext => contexts'[Rep(p)][t] = contexts[Rep(p)][t]]_vars
  /\ \A q \in Procs : (\E p \in Procs : LateFor(q, p)) ~> (pc[q] = "idle")

\* A thread registered after a round took its snapshot and has an operation
\* pending for the round's shard while the round hands out its responses.
C20_Witness ==
  \E p, q \in Procs :
    /\ LateFor(q, p) /\ pc[p] = "cb_dist"
    /\ Len(CtxAllPending(contexts[Rep(q)][Me(q)])) = 1

\* Thread p is at the end of a combining round that staged no operation.
EmptyRoundEnd(p) ==
  /\ pc[p] \in {"cb_dist", "tc_release"}
  /\ Len(buffer[Rep(p)][Shard(p)]) = 0

\* C21 - Empty rounds still catch up: the append of a round that staged no
\* operation leaves tail and the log as they are and the round goes on to
\* replay; at the end of such a round the replica's local tail is at least
\* the tail the round observed (th.at, read by its append), the replica has
\* dispatched exactly the entries below its local tail, in index order, and
\* (one log) its data is those entries applied to the default state.
C21_EmptyRoundCatchesUp ==
  /\ [](\A p \in Procs :
          EmptyRoundEnd(p) =>
            LET r == Rep(p)
                l == Shard(p)
                lt == slog[l].ltails[idx(r, l)]
            IN /\ lt >= th[p].at
               /\ trace[r][l] = SubSeq(HistCalls(l), 1, lt)
               /\ nlogs = 1 => data[r] = ApplyAll(SubSeq(HistOps(l), 1, lt)))
  /\ [][\A p \in Procs :
          pc[p] = "ap" /\ pc'[p] # "ap" /\ Len(buffer[Rep(p)][Shard(p)]) = 0 =>
            /\ slog'[Shard(p)].tail = slog[Shard(p)].tail
            /\ hist' = hist
            /\ pc'[p] = "ex_begin"]_vars

\* A round of replica 1 staged nothing and replayed two entries, all of
\* them appended by replica 2.
C21_Witness ==
  \E p \in Procs :
    /\ EmptyRoundEnd(p) /\ Rep(p) = 1
    /\ th[p].at = 2 /\ slog[0].ltails[idx(1, 0)] = 2
    /\ HistOrigins(0) = {2}
    /\ data[1] # DefaultData

ReadDispatches(p) == pc[p] = "rd_disp" /\ pc'[p] = "idle"

\* C23 - Reads see a consistent log prefix (one log): whenever a read is
\* dispatched on replica r, no combiner holds the write lock of r, the
\* replica has dispatched exactly the first k entries of the log in index
\* order, its data is those k operations applied to the default state, k is
\* at least the ctail the read observed on entry, and the response is the
\* read dispatched against that state.
C23_ReadsSeePrefix ==
  [][\A p \in Procs :
       ReadDispatches(p) /\ nlogs = 1 =>
         LET r == Rep(p)
             k == Len(trace[r][0])
             prefix == SubSeq(HistOps(0), 1, k)
         IN /\ wlock[r] = 0
            /\ k <= Len(hist[0])
            /\ trace[r][0] = SubSeq(HistCalls(0), 1, k)
            /\ data[r] = ApplyAll(prefix)
            /\ k >= th[p].rctail
            /\ calls'[th[p].uid].resp = Resp(dispatch(ApplyAll(prefix), ReadOp), th[p].uid)
            /\ calls'[th[p].uid].seen = SubSeq(HistCalls(0), 1, k)]_vars

\* A read of replica 1 that observed ctail = 1 on entry has returned after
\* being dispatched against the first entry of a log that now holds two.
C23_Witness ==
  /\ nlogs = 1
  /\ Len(hist[0]) = 2
  /\ \E u \in Uids :
       /\ calls[u].kind = "rd" /\ calls[u].done /\ home[OwnerOf(u)] = 1
       /\ Len(calls[u].seen) = 1
       /\ calls[u].resp.v = 1

\* The thread holding id t of replica r gets true from make_pending in this step.
OwnerEnqueues(r, t) ==
  \E p \in Procs : Rep(p) = r /\ Me(p) = t /\ MakePendingTrue(p)

\* A combiner of replica r hands out the responses of its round in this step.
CombinerDistributes(r) ==
  \E p \in Procs : Rep(p) = r /\ pc[p] = "cb_dist" /\ pc'[p] # "cb_dist"

\* The thread holding id t of replica r takes a response with res() in this
\* step: inside get_response, or by a call of its own.
OwnerTakes(r, t) ==
  \E p \in Procs :
    /\ Rep(p) = r /\ Me(p) = t
    /\ pc[p] \in {"gr", "idle"} /\ pc'[p] = "idle"
    /\ contexts'[r][t].head = contexts[r][t].head + 1

Reading(p) == calls[th[p].uid].kind = "rd" /\ pc[p] # "idle"

\* C25 - Read-only execute terminates: when every thread that can take a
\* step eventually takes one, an execute(read) that has started eventually
\* returns; the ctail it compares the local tail with is the one read on
\* entry, whatever is appended afterwards.
C25_ReadTerminates ==
  /\ [][\A p \in Procs :
          th[p].uid # 0 /\ Reading(p) /\ pc'[p] # "idle" => th'[p].rctail = th[p].rctail]_vars
  /\ \A p \in Procs : (pc[p] = "rd_sync") ~> (pc[p] = "idle")

\* The reader found replica 1 behind ctail of its shard, took the shard's
\* free combiner lock and panicked on the borrow held by the round of the
\* writer of the other shard; the writer's round has since ended.
C25_Witness ==
  /\ pc[2] = "panicked" /\ th[2].ret = "rd_sync"
  /\ combiners[1][HashIdx(ReadHash)] = Me(2)
  /\ pc[1] = "idle" /\ pc[3] = "idle"

\* The sum of the in-flight counts of the thread ids i and above, below n.
RECURSIVE SumCounts(_, _, _)
SumCounts(ops, i, n) ==
  IF i \notin CollectRange(n) THEN 0 ELSE ops[i] + SumCounts(ops, i + 1, n)

\* The staged operations are ordered by thread id and, within a thread, by
\* submission.
StagedInOrder(b) ==
  \A j, k \in 1..Len(b) :
    j < k =>
      \/ th[OwnerOf(b[j].uid)].tid < th[OwnerOf(b[k].uid)].tid
      \/ OwnerOf(b[j].uid) = OwnerOf(b[k].uid) /\ b[j].uid < b[k].uid

\* C26 - Response accounting: when a round starts handing out responses,
\* the staged responses are as many as the sum of the round's in-flight
\* counts, they answer the staged operations in the order these were staged
\* (thread id ascending, submission order within a thread), and each is the
\* response of a log entry whose origin is this replica; when the hand-out
\* ends every in-flight count is 0.
C26_ResponseAccounting ==
  /\ [](\A p \in Procs :
          pc[p] = "cb_dist" =>
            LET r == Rep(p)
                l == Shard(p)
                b == buffer[r][l]
            IN /\ Len(result[r]) = SumCounts(inflight[r], 1, th[p].cnext)
               /\ StagedInOrder(b)
               /\ [j \in 1..Len(result[r]) |-> result[r][j].of] =
                    [j \in 1..Len(b) |-> b[j].uid]
               /\ \A j \in 1..Len(result[r]) :
                    \E i \in 1..Len(hist[l]) :
                      /\ hist[l][i].uid = result[r][j].of
                      /\ hist[l][i].replica = idx(r, l))
  /\ [][\A p \in Procs :
          pc[p] = "cb_dist" /\ pc'[p] # "cb_dist" =>
            \A t \in Tids : inflight'[Rep(p)][t] = 0]_vars

\* A round is about to hand out responses and the responses staged are fewer
\* than the in-flight counts say: the round of another shard has cleared them.
C26_Witness ==
  \E p \in Procs :
    /\ pc[p] = "cb_dist"
    /\ Len(buffer[Rep(p)][Shard(p)]) = 1
    /\ SumCounts(inflight[Rep(p)], 1, th[p].cnext) = 1
    /\ Len(result[Rep(p)]) = 0

\* The operations context c holds: enqueued and not yet taken by res().
Outstanding(c) == c.tail - c.head

\* C27 - One outstanding operation per context: when every thread calls
\* execute and execute_mut with its own token and waits for the result, a
\* context never holds more than one operation, the context of a thread
\* that is not inside execute_mut holds none, and the make_pending of
\* execute_mut finds its context empty and returns true the first time.
C27_OneOutstanding ==
  /\ \A r \in ReplicaIds, t \in Tids : Outstanding(contexts[r][t]) \in {0, 1}
  /\ \A p \in Procs :
       Me(p) # 0 =>
         LET c == contexts[Rep(p)][Me(p)]
         IN /\ pc[p] \in {"idle", "mp", "rd_sync", "rd_disp"} => Outstanding(c) = 0
            /\ pc[p] = "mp" => make_pending(c, th[p].op, th[p].uid, th[p].hash).ok

\* A thread is in its second execute_mut: its first operation was answered
\* and taken, and the second one went into the context at the first attempt.
C27_Witness ==
  \E p \in Procs :
    /\ pc[p] = "tc" /\ th[p].ret = "gr"
    /\ contexts[Rep(p)][Me(p)].head = 1
    /\ contexts[Rep(p)][Me(p)].tail = 2
    /\ Cardinality({u \in Returned : OwnerOf(u) = p /\ calls[u].kind = "wr"}) = 1

\* Thread p takes a step of its call.
Moves(p) == pc'[p] # pc[p]

\* Thread p is in execute(read), at or past the check of its replica
\* against the ctail it read, and the replica is synced up to that ctail.
SyncedRead(p) ==
  /\ pc[p] \in {"rd_sync", "rd_disp"}
  /\ LogSynced(slog[Shard(p)], idx(Rep(p), Shard(p)), th[p].rctail)

\* C28 - A read on a synced replica has no side effects: entering
\* execute(read) changes nothing shared, and a read that finds its replica
\* synced up to the ctail it read goes on to dispatch without calling
\* try_combine and returns, leaving the combiner locks, the contexts, the
\* staging, the logs and their cursors and the replica data unchanged; no
\* log entry and no context slot ever holds a read.
C28_SyncedReadNoEffects ==
  /\ [](/\ \A l \in LiveShards : \A i \in 1..Len(hist[l]) :
               calls[hist[l][i].uid].kind \in {"wr", "mp"}
        /\ \A r \in ReplicaIds, t \in Tids, s \in 0..(BatchSize - 1) :
             contexts[r][t].batch[s].state # "Empty" =>
               calls[contexts[r][t].batch[s].uid].kind \in {"wr", "mp"})
  /\ [][\A p \in Procs :
          /\ pc[p] = "idle" /\ pc'[p] = "rd_sync" =>
               UNCHANGED <<slog, hist, combiners, contexts, buffer, inflight, result,
                           borrow, data, wlock, trace>>
          /\ SyncedRead(p) /\ Moves(p) =>
               /\ pc'[p] = IF pc[p] = "rd_sync" THEN "rd_disp" ELSE "idle"
               /\ UNCHANGED <<slog, hist, combiners, contexts, buffer, inflight, result,
                              borrow, data, wlock, trace>>]_vars

\* A read has returned on a replica that was synced when the read started:
\* every entry of the log was appended, and so already replayed, by the
\* reader's own replica.
C28_Witness ==
  \E u \in Uids :
    /\ nlogs = 1
    /\ calls[u].kind = "rd" /\ calls[u].done
    /\ Len(calls[u].seen) = 2
    /\ HistOrigins(0) = {idx(home[OwnerOf(u)], 0)}


====
